---------------------------- MODULE Spec2Model ----------------------------
(***************************************************************************)
(* bonono-server: a signature-authenticated document store whose nodes     *)
(* replicate inserts to each other over TCP.                               *)
(*                                                                         *)
(*   PubSub    (pub-sub.ts, src/unnamed/part_000): listening socket,       *)
(*             reconnection timer, handshake, address <-> socket registry, *)
(*             sendToPeers, receive callback.                              *)
(*   DbManager (src/src/index.ts, lines 110-269): insertOne, find, the     *)
(*             receive callback _onReceive.                                *)
(*                                                                         *)
(* Every node runs one single-threaded event loop: each action below is    *)
(* one event handler run to completion (a timer tick, a connect callback,  *)
(* a 'data', 'close' or 'end' event, the synchronous prefix of an insertOne *)
(* call, the continuation after its storage await).  The model covers one  *)
(* connect() per node.                                                     *)
(***************************************************************************)
EXTENDS Integers, Sequences, FiniteSets, TLC

Node == {"A", "B", "C"}

\* ------------------------------------------------------------------ bounds
\* sockets ever created by createConnection, all nodes together
MaxSockets == 2
\* the same, where three nodes interconnect
MeshSockets == 3
\* the same, where two nodes only connect and disconnect
PairSockets == 3
\* insertOne calls made by applications, per node
MaxCalls == 2

\* ------------------------------------------------------- program constants
\* portfinder.getPortPromise({ port: 5001 })
BasePort == 5001
\* enum PeerMessageType { PeerInfo, PeerData }
PeerInfo == 0
PeerData == 1

\* ------------------------------------------------------------ JS values
Undefined == "<undefined>"
Null == "<null>"
NaN == -1

\* undefined where an object is expected
UndefinedObject == [undefined |-> TRUE]

Falsy(v) == v \in {Undefined, Null, ""}

\* obj.f of a parsed JSON object: undefined when the key is absent
Field(obj, f) == IF f \in DOMAIN obj THEN obj[f] ELSE Undefined

Min(a, b) == IF a < b THEN a ELSE b

\* ------------------------------------------------------------ deployment
\* Every node runs on a machine of its own; the host name of the machine.
RealHost(n) == CASE n = "A" -> "a" [] n = "B" -> "b" [] n = "C" -> "c"

Loopback == {"localhost", "127.0.0.1"}
Hosts == Loopback \cup {RealHost(n) : n \in Node}
\* 5002 is a port nobody listens on
Ports == {BasePort, BasePort + 1}
PortStrs == {ToString(p) : p \in Ports} \cup {"x"}

\* `${host}:${port}`
JoinAddress(host, portStr) == host \o ":" \o portStr

\* address.split(':') over the addresses of the model
SplitAddress(address) ==
    CHOOSE hp \in Hosts \X PortStrs : JoinAddress(hp[1], hp[2]) = address

\* parseInt(portStr)
ParseInt(portStr) ==
    IF \E p \in Ports : ToString(p) = portStr
    THEN CHOOSE p \in Ports : ToString(p) = portStr
    ELSE NaN

\* the machine a host name denotes when node n resolves it
Resolve(n, host) ==
    IF host \in Loopback THEN {n} ELSE {m \in Node : RealHost(m) = host}

\* ------------------------------------------------------------------ state
VARIABLES
    \* PubSub
    server,            \* _server # null
    serverAddress,     \* _serverAddress
    serverPort,        \* _serverPort
    listening,         \* what became of _server.listen(): "none" before it,
                       \* "listening", "error" (the bind failed), "closed"
    addressToSocket,   \* _addressToSocket : address -> socket end
    socketToAddress,   \* _socketToAddress : socket end -> address
    timer,             \* the pending setTimeout closure: its arguments
    lastTick,          \* what the latest _startConnectingToPeers did
    \* the TCP connections: both ends and the chunks in flight
    sockets,
    \* DbManager
    db,                \* _db # null
    store,             \* the node's database: {<<collection, document>>}
    calls,             \* insertOne calls, in call order
    lastFind,          \* the last find call and what it returned
    \* what PubSub passed to the receive callback
    cbLog

pubsubVars == <<server, serverAddress, serverPort, listening, addressToSocket,
                socketToAddress, timer, lastTick>>
dbVars == <<db, store, calls, lastFind>>
vars == <<server, serverAddress, serverPort, listening, addressToSocket,
          socketToAddress,
          timer, lastTick, sockets, db, store, calls, lastFind, cbLog>>

NoTimer == [addresses |-> <<>>, maxConnections |-> 0, armed |-> FALSE]
NoTick == "none"
NoFind == [name |-> "", owner |-> Null, connected |-> FALSE, result |-> {},
           inserted |-> {}]

\* a socket object of node n: this end of connection s
OutEnd(s) == <<s, "out">>
InEnd(s) == <<s, "in">>

EmptyMap == [x \in {} |-> Undefined]
MapSet(m, k, v) == [x \in DOMAIN m \cup {k} |-> IF x = k THEN v ELSE m[x]]
MapDelete(m, k) == [x \in DOMAIN m \ {k} |-> m[x]]
MapValues(m) == {m[x] : x \in DOMAIN m}

Init ==
    /\ server = [n \in Node |-> FALSE]
    /\ serverAddress = [n \in Node |-> ""]
    /\ serverPort = [n \in Node |-> 0]
    /\ listening = [n \in Node |-> "none"]
    /\ addressToSocket = [n \in Node |-> EmptyMap]
    /\ socketToAddress = [n \in Node |-> EmptyMap]
    /\ timer = [n \in Node |-> NoTimer]
    /\ lastTick = NoTick
    /\ sockets = EmptyMap
    /\ db = [n \in Node |-> FALSE]
    /\ store = [n \in Node |-> {}]
    /\ calls = [n \in Node |-> <<>>]
    /\ lastFind = [n \in Node |-> NoFind]
    /\ cbLog = [n \in Node |-> <<>>]


\* ================================================================ PubSub

\* (mutant) only the loopback names denote this node
IsSelfAddress_LoopbackOnly(selfAddress, host) ==
    host = "localhost" \/ host = "127.0.0.1"

\* PubSub._isSelfAddress, with this._serverAddress = selfAddress
IsSelfAddress(selfAddress, host) ==
    host = "localhost" \/ host = "127.0.0.1" \/ host = selfAddress

\* PubSub._tryConnectToPeer up to createConnection: what it decides
TryConnectToPeer(n, address, selfAddress, selfPort) ==
    IF address \in DOMAIN addressToSocket[n] THEN "already"
    ELSE LET hp == SplitAddress(address)
             port == ParseInt(hp[2])
         IN  IF port = NaN THEN "nan"
             ELSE IF IsSelfAddress(selfAddress, hp[1]) /\ port = selfPort
                  THEN "self"
                  ELSE "dial"

\* const maxCxns = Math.min(maxConnections, addresses.length / 2);
\* this._addressToSocket.size < maxCxns, with both sides doubled
BelowMaxCxns(size, addresses, maxConnections) ==
    2 * size < Min(2 * maxConnections, Len(addresses))

\* Math.round(Math.random() * (addresses.length - 1))
RandomCxnIdx(addresses) ==
    IF Len(addresses) = 0 THEN {0} ELSE 0 .. (Len(addresses) - 1)

\* PubSub._startConnectingToPeers without the setTimeout: the candidate it
\* picks, and what _tryConnectToPeer decides for it
StartConnectingToPeers(n, addresses, maxConnections, idx, selfAddress, selfPort) ==
    IF BelowMaxCxns(Cardinality(DOMAIN addressToSocket[n]), addresses, maxConnections)
    THEN [address |-> addresses[idx + 1],
          result |-> TryConnectToPeer(n, addresses[idx + 1], selfAddress, selfPort)]
    ELSE [address |-> "", result |-> "full"]

\* createConnection(port, host, ...): a socket that is connecting; afterStop
\* records whether the node had been disconnected when it dialed
NewSocket(n, address) ==
    [dialer |-> n, address |-> address, acceptor |-> "",
     dst |-> "connecting", ast |-> "none",
     toAcc |-> <<>>, toDial |-> <<>>, dWrote |-> <<>>, aWrote |-> <<>>,
     afterStop |-> listening[n] = "closed"]

\* the sockets node n has created so far are <<n, 1>>, <<n, 2>>, ...
SocketsOf(n) == {s \in DOMAIN sockets : s[1] = n}
NextSocket(n) == <<n, Cardinality(SocketsOf(n)) + 1>>

\* the sockets after the tick `t`
AfterTick(n, t) ==
    IF t.result = "dial"
    THEN MapSet(sockets, NextSocket(n), NewSocket(n, t.address))
    ELSE sockets

\* DbManager.connect: the database connection succeeds, then PubSub.connect:
\* portfinder names the first free port of the machine, the server is created
\* and listen() is called, and _startConnectingToPeers runs for the first
\* time.  `listen` is what becomes of the listen() call: "listening", or
\* "error" when the bind fails (the 'error' event goes to console.log).
Start(n, selfAddress, peerAddresses, maxConnections, limit, listen) ==
    /\ ~db[n] /\ ~server[n] /\ ~timer[n].armed
    /\ \E idx \in RandomCxnIdx(peerAddresses) :
         LET t == StartConnectingToPeers(n, peerAddresses, maxConnections, idx,
                                         selfAddress, BasePort)
         IN  /\ t.result = "dial" => Cardinality(DOMAIN sockets) < limit
             /\ sockets' = AfterTick(n, t)
             /\ lastTick' = t.result
    /\ db' = [db EXCEPT ![n] = TRUE]
    /\ serverAddress' = [serverAddress EXCEPT ![n] = selfAddress]
    /\ serverPort' = [serverPort EXCEPT ![n] = BasePort]
    /\ server' = [server EXCEPT ![n] = TRUE]
    /\ listening' = [listening EXCEPT ![n] = listen]
    /\ timer' = [timer EXCEPT ![n] = [addresses |-> peerAddresses,
                                      maxConnections |-> maxConnections,
                                      armed |-> TRUE]]
    /\ UNCHANGED <<addressToSocket, socketToAddress, store, calls,
                   lastFind, cbLog>>

\* connect(), the listening socket bound
Connect(n, selfAddress, peerAddresses, maxConnections, limit) ==
    Start(n, selfAddress, peerAddresses, maxConnections, limit, "listening")

\* connect() when the port portfinder named is taken before listen() binds it
ConnectListenError(n, selfAddress, peerAddresses, maxConnections, limit) ==
    Start(n, selfAddress, peerAddresses, maxConnections, limit, "error")

\* socket.end() on one end of a connection
EndSocket(r, out, in) ==
    [r EXCEPT !.dst = IF out THEN "ended" ELSE @,
              !.ast = IF in THEN "ended" ELSE @]

\* DbManager.disconnect: PubSub.disconnect (_stopListeningForPeers ends the
\* registered sockets, closes the server and resets the registry and the
\* port), then _disconnectFromMongoDb.  The timer is left as it is.  No
\* insertOne call of the node waits for the storage.
Disconnect(n) ==
    /\ server[n]
    /\ \A i \in DOMAIN calls[n] : calls[n][i].pc = "done"
    /\ sockets' = [s \in DOMAIN sockets |->
                     EndSocket(sockets[s],
                               sockets[s].dialer = n
                                 /\ OutEnd(s) \in MapValues(addressToSocket[n]),
                               sockets[s].acceptor = n
                                 /\ InEnd(s) \in MapValues(addressToSocket[n]))]
    /\ listening' = [listening EXCEPT ![n] = "closed"]
    /\ addressToSocket' = [addressToSocket EXCEPT ![n] = EmptyMap]
    /\ socketToAddress' = [socketToAddress EXCEPT ![n] = EmptyMap]
    /\ serverPort' = [serverPort EXCEPT ![n] = 0]
    /\ server' = [server EXCEPT ![n] = FALSE]
    /\ db' = [db EXCEPT ![n] = FALSE]
    /\ UNCHANGED <<serverAddress, timer, lastTick, store, calls, lastFind, cbLog>>

\* the setTimeout callback: _startConnectingToPeers again
TimerTick(n, limit) ==
    /\ timer[n].armed
    /\ \E idx \in RandomCxnIdx(timer[n].addresses) :
         LET t == StartConnectingToPeers(n, timer[n].addresses,
                                         timer[n].maxConnections, idx,
                                         serverAddress[n], serverPort[n])
         IN  /\ t.result = "dial" => Cardinality(DOMAIN sockets) < limit
             /\ sockets' = AfterTick(n, t)
             /\ lastTick' = t.result
    /\ UNCHANGED <<server, serverAddress, serverPort, listening, addressToSocket,
                   socketToAddress, timer, dbVars, cbLog>>

\* the node that accepts a connection to `address` dialed by n, if one listens
Listener(n, address) ==
    LET hp == SplitAddress(address)
    IN  {m \in Resolve(n, hp[1]) :
           listening[m] = "listening" /\ serverPort[m] = ParseInt(hp[2])}

\* a connect callback that would announce itself in a data frame
PeerInfoMessage_AsData(n) ==
    [type |-> PeerData, address |-> serverAddress[n], port |-> serverPort[n]]

\* the handshake frame of the connect callback
PeerInfoMessage(n) ==
    [type |-> PeerInfo, address |-> serverAddress[n], port |-> serverPort[n]]

\* the connect callback of createConnection, and the server's 'connection'
\* event at the node that accepted
ConnectCallback(s) ==
    LET r == sockets[s]
        n == r.dialer
    IN  /\ r.dst = "connecting"
        /\ \E m \in Listener(n, r.address) :
             sockets' = [sockets EXCEPT ![s] =
                           [r EXCEPT !.dst = "open", !.ast = "open", !.acceptor = m,
                                     !.toAcc = Append(@, PeerInfoMessage(n)),
                                     !.dWrote = Append(@, PeerInfoMessage(n))]]
        /\ addressToSocket' = [addressToSocket EXCEPT ![n] = MapSet(@, r.address, OutEnd(s))]
        /\ socketToAddress' = [socketToAddress EXCEPT ![n] = MapSet(@, OutEnd(s), r.address)]
        /\ UNCHANGED <<server, serverAddress, serverPort, listening, timer, lastTick,
                       dbVars, cbLog>>

\* socket.on('close') of an outbound socket: the dial was refused, or the
\* connection is gone, or this node ended it
OutboundClose(s) ==
    LET r == sockets[s]
        n == r.dialer
    IN  /\ \/ r.dst = "connecting" /\ Listener(n, r.address) = {}
           \/ r.dst \in {"open", "ended"}
        /\ sockets' = [sockets EXCEPT ![s] = [r EXCEPT !.dst = "closed"]]
        /\ addressToSocket' = [addressToSocket EXCEPT ![n] = MapDelete(@, r.address)]
        /\ socketToAddress' = [socketToAddress EXCEPT ![n] = MapDelete(@, OutEnd(s))]
        /\ UNCHANGED <<server, serverAddress, serverPort, listening, timer, lastTick,
                       dbVars, cbLog>>

\* socket.on('end') of an accepted socket
InboundEnd(s) ==
    LET r == sockets[s]
        m == r.acceptor
    IN  /\ r.ast \in {"open", "ended"}
        /\ sockets' = [sockets EXCEPT ![s] = [r EXCEPT !.ast = "closed"]]
        /\ IF InEnd(s) \in DOMAIN socketToAddress[m]
           THEN LET address == socketToAddress[m][InEnd(s)]
                IN  /\ addressToSocket' = [addressToSocket EXCEPT ![m] = MapDelete(@, address)]
                    /\ socketToAddress' = [socketToAddress EXCEPT ![m] = MapDelete(@, InEnd(s))]
           ELSE UNCHANGED <<addressToSocket, socketToAddress>>
        /\ UNCHANGED <<server, serverAddress, serverPort, listening, timer, lastTick,
                       dbVars, cbLog>>

\* an accepted socket whose connection is reset (the peer's process dies, the
\* network drops it): the socket emits 'error', which is logged
\* (part_000:90), and 'close', for which accepted sockets have no handler;
\* 'end' is not emitted, so the registry is left as it is
InboundReset(s) ==
    LET r == sockets[s]
    IN  /\ r.ast = "open"
        /\ sockets' = [sockets EXCEPT ![s] = [r EXCEPT !.ast = "closed"]]
        /\ UNCHANGED <<server, serverAddress, serverPort, listening, addressToSocket,
                       socketToAddress, timer, lastTick, dbVars, cbLog>>

\* ============================================================= DbManager

\* --- entries and signatures
\* hex-encoded Ed25519 public keys
Keys == {"a1", "b2"}
IdRests == {"x"}
Titles == {"t", "u"}

\* `${key}/${rest}`
KeyedId(key, rest) == key \o "/" \o rest

\* id.match(/^[0-9a-f]+\//), over the ids of the model
MatchesHexPrefix(id) == \E k \in Keys, r \in IdRests : id = KeyedId(k, r)

\* id.split('/')[0] of an id that matches
HexPrefix(id) == CHOOSE k \in Keys : \E r \in IdRests : id = KeyedId(k, r)

\* (mutant) JSON.stringify(entry): the signature is not cleared
Canonical_KeepsSignature(entry) == <<entry._id, entry.title, entry._signature>>

\* JSON.stringify({ ...entry, _signature: '' }): every field but the signature
Canonical(entry) == <<entry._id, entry.title>>

\* what a client holding the private key of `key` signs
Sign(key, id, title) == [by |-> key, over |-> <<id, title>>]

\* (mutant) the signature is checked against the key only, not the message
Verify_KeyOnly(signature, message, publicKey) ==
    publicKey \in Keys /\ signature.by = publicKey

\* ed25519.verify(signature, message, publicKey); it throws on a malformed
\* signature or key, which insertOne catches and treats alike
Verify(signature, message, publicKey) ==
    /\ publicKey \in Keys
    /\ signature.by = publicKey
    /\ signature.over = message

\* (mutant) no _id check
MissingId_Never(id) == FALSE

\* !entry._id && entry._id != 0  ('' == 0 in JavaScript)
LooseEqualsZero(v) == v \in {"", "0"}
MissingId(id) == Falsy(id) /\ ~LooseEqualsZero(id)

\* publicKeyOwner || (id.match(/^[0-9a-f]+\//) ? id.split('/')[0] : null)
ResolvePublicKey(publicKeyOwner, id) ==
    IF ~Falsy(publicKeyOwner) THEN publicKeyOwner
    ELSE IF MatchesHexPrefix(id) THEN HexPrefix(id) ELSE Null

\* publicKeyOwner ? `${name}/${publicKeyOwner}` : name
CollectionAddress(name, publicKeyOwner) ==
    IF ~Falsy(publicKeyOwner) THEN name \o "/" \o publicKeyOwner ELSE name

\* The record of an insertOne call.  pc, outcome, result and ops (the storage
\* calls it made) are the call's own state; dbAtCall, alone (no other call of
\* the node was waiting for the storage when it was made) and registered
\* (the sockets of _addressToSocket when it sent to the peers) record the
\* circumstances of the call.
Call(n, name, publicKeyOwner, entry, notifyPeers, pc, outcome, address, ops) ==
    [name |-> name, owner |-> publicKeyOwner, entry |-> entry,
     notifyPeers |-> notifyPeers, pc |-> pc, outcome |-> outcome,
     address |-> address, ops |-> ops, result |-> Null,
     dbAtCall |-> db[n],
     alone |-> \A j \in DOMAIN calls[n] : calls[n][j].pc = "done",
     registered |-> {}]

\* an insertOne call that returned null before any storage call
Rejected(n, name, publicKeyOwner, entry, notifyPeers, why) ==
    Call(n, name, publicKeyOwner, entry, notifyPeers, "done", why, "", <<>>)

\* DbManager.insertOne up to `await col.insertOne(entry)`: the call as it
\* returns null, or as it waits for the storage
InsertOneSync(n, name, publicKeyOwner, entry, notifyPeers) ==
    IF ~db[n]
    THEN Rejected(n, name, publicKeyOwner, entry, notifyPeers, "NotConnected")
    ELSE IF MissingId(entry._id)
    THEN Rejected(n, name, publicKeyOwner, entry, notifyPeers, "MalformedEntry")
    ELSE IF Falsy(ResolvePublicKey(publicKeyOwner, entry._id))
    THEN Rejected(n, name, publicKeyOwner, entry, notifyPeers, "MissingOwner")
    ELSE IF ~Verify(entry._signature, Canonical(entry),
                    ResolvePublicKey(publicKeyOwner, entry._id))
    THEN Rejected(n, name, publicKeyOwner, entry, notifyPeers, "SignatureInvalid")
    ELSE Call(n, name, publicKeyOwner, entry, notifyPeers, "await", "",
              CollectionAddress(name, publicKeyOwner),
              <<"collection", "insertOne">>)

\* a call of insertOne by the application (the HTTP handler)
InsertOne(n, name, publicKeyOwner, entry) ==
    /\ Len(calls[n]) < MaxCalls
    /\ calls' = [calls EXCEPT ![n] =
                   Append(@, InsertOneSync(n, name, publicKeyOwner, entry, TRUE))]
    /\ UNCHANGED <<pubsubVars, sockets, db, store, lastFind, cbLog>>

\* the unique index on _id of a collection
DuplicateKey(n, address, entry) ==
    \E d \in store[n] : d[1] = address /\ d[2]._id = entry._id

\* { action: 'insertOne', name, publicKeyOwner, entry }
InsertOneMessage(c) ==
    [action |-> "insertOne", name |-> c.name, publicKeyOwner |-> c.owner,
     entry |-> c.entry]

Repeat(x, k) == [i \in 1 .. k |-> x]

\* (mutant) one write on every open socket of the node, registered or not
SendToPeers_EveryOpenSocket(n, obj) ==
    [s \in DOMAIN sockets |->
       LET r == sockets[s]
           kOut == IF r.dialer = n /\ r.dst = "open" THEN 1 ELSE 0
           kIn == IF r.acceptor = n /\ r.ast = "open" THEN 1 ELSE 0
       IN  [r EXCEPT !.toAcc = @ \o Repeat(obj, kOut),
                     !.dWrote = @ \o Repeat(obj, kOut),
                     !.toDial = @ \o Repeat(obj, kIn),
                     !.aWrote = @ \o Repeat(obj, kIn)]]

\* (mutant) every write is made twice
SendToPeers_Twice(n, obj) ==
    [s \in DOMAIN sockets |->
       LET r == sockets[s]
           reg == addressToSocket[n]
           kOut == IF r.dialer = n
                   THEN 2 * Cardinality({a \in DOMAIN reg : reg[a] = OutEnd(s)}) ELSE 0
           kIn == IF r.acceptor = n
                  THEN 2 * Cardinality({a \in DOMAIN reg : reg[a] = InEnd(s)}) ELSE 0
       IN  [r EXCEPT !.toAcc = @ \o Repeat(obj, kOut),
                     !.dWrote = @ \o Repeat(obj, kOut),
                     !.toDial = @ \o Repeat(obj, kIn),
                     !.aWrote = @ \o Repeat(obj, kIn)]]

\* PubSub.sendToPeers: one write on the socket of every _addressToSocket entry
SendToPeers(n, obj) ==
    [s \in DOMAIN sockets |->
       LET r == sockets[s]
           reg == addressToSocket[n]
           kOut == IF r.dialer = n
                   THEN Cardinality({a \in DOMAIN reg : reg[a] = OutEnd(s)}) ELSE 0
           kIn == IF r.acceptor = n
                  THEN Cardinality({a \in DOMAIN reg : reg[a] = InEnd(s)}) ELSE 0
       IN  [r EXCEPT !.toAcc = @ \o Repeat(obj, kOut),
                     !.dWrote = @ \o Repeat(obj, kOut),
                     !.toDial = @ \o Repeat(obj, kIn),
                     !.aWrote = @ \o Repeat(obj, kIn)]]

\* (mutant) the peers are notified whether or not the insert succeeded
NotifiesPeers_Always(notifyPeers, duplicate) == notifyPeers

\* if (notifyPeers) sendToPeers(...): reached only when col.insertOne did
\* not throw
NotifiesPeers(notifyPeers, duplicate) == ~duplicate /\ notifyPeers

\* the storage runs col.insertOne(entry) of call i and insertOne continues
\* after its await: a duplicate key throws into the catch, a stored entry is
\* sent to the peers when notifyPeers is set
InsertOneResume(n, i) ==
    LET c == calls[n][i]
        duplicate == DuplicateKey(n, c.address, c.entry)
        notifies == NotifiesPeers(c.notifyPeers, duplicate)
    IN  /\ c.pc = "await"
        /\ store' = IF duplicate THEN store
                    ELSE [store EXCEPT ![n] = @ \cup {<<c.address, c.entry>>}]
        /\ sockets' = IF notifies THEN SendToPeers(n, InsertOneMessage(c))
                      ELSE sockets
        /\ calls' = [calls EXCEPT ![n][i] =
              [c EXCEPT !.pc = "done",
                        !.outcome = IF duplicate THEN "WriteError" ELSE "Inserted",
                        !.result = IF duplicate THEN Null ELSE "InsertOneResult",
                        !.registered = IF notifies
                                       THEN MapValues(addressToSocket[n]) ELSE {}]]
        /\ UNCHANGED <<pubsubVars, db, lastFind, cbLog>>

\* the entries of the successful insertOne calls made with (name, owner)
InsertedUnder(n, name, publicKeyOwner) ==
    {calls[n][i].entry : i \in {j \in DOMAIN calls[n] :
        /\ calls[n][j].outcome = "Inserted"
        /\ calls[n][j].name = name
        /\ calls[n][j].owner = publicKeyOwner}}

\* DbManager.find with filter {}, its cursor read at once: the documents of
\* the collection, or null (connected = FALSE) before the database connection.
\* `inserted` records InsertedUnder at the time of the call.
Find(n, name, publicKeyOwner) ==
    /\ lastFind' = [lastFind EXCEPT ![n] =
          [name |-> name, owner |-> publicKeyOwner, connected |-> db[n],
           result |-> IF ~db[n] THEN {}
                      ELSE {d[2] : d \in {e \in store[n] :
                               e[1] = CollectionAddress(name, publicKeyOwner)}},
           inserted |-> InsertedUnder(n, name, publicKeyOwner)]]
    /\ UNCHANGED <<pubsubVars, sockets, db, store, calls, cbLog>>

\* --- the receive path
\* PubSub calls the callback as this._onReceive(obj) (part_000:214), and
\* DbManager registered its method unbound (index.ts:125): inside
\* DbManager._onReceive, `this` is the PubSub object
CallbackThis == "PubSub"
HasInsertOne(object) == object = "DbManager"

\* DbManager._onReceive(obj): the insertOne call it makes, or the TypeError
OnReceive(n, obj) ==
    IF obj = UndefinedObject THEN [kind |-> "throw"]
    ELSE IF "action" \in DOMAIN obj /\ obj.action = "insertOne"
    THEN IF HasInsertOne(CallbackThis)
         THEN [kind |-> "call",
               call |-> InsertOneSync(n, Field(obj, "name"), Field(obj, "publicKey"),
                                      Field(obj, "entry"), FALSE)]
         ELSE [kind |-> "throw"]
    ELSE [kind |-> "none"]

\* PubSub._onPeerReceived(obj) at the end `end` of a connection of node n
OnPeerReceived(n, end, obj) ==
    LET e == OnReceive(n, obj)
    IN  /\ cbLog' = [cbLog EXCEPT ![n] =
                       Append(@, [socket |-> end, obj |-> obj, effect |-> e.kind])]
        /\ calls' = IF e.kind = "call"
                    THEN [calls EXCEPT ![n] = Append(@, e.call)]
                    ELSE calls

\* socket.on('data') of an outbound socket: the chunk goes to _onPeerReceived
ClientData(s) ==
    LET r == sockets[s]
    IN  /\ r.dst = "open" /\ r.toDial # <<>>
        /\ sockets' = [sockets EXCEPT ![s] = [r EXCEPT !.toDial = Tail(@)]]
        /\ OnPeerReceived(r.dialer, OutEnd(s), Head(r.toDial))
        /\ UNCHANGED <<pubsubVars, db, store, lastFind>>

\* socket.on('data') of an accepted socket: _onPeerMessage switches on the type
ServerData(s) ==
    LET r == sockets[s]
        m == r.acceptor
        peerMsg == Head(r.toAcc)
    IN  /\ r.ast = "open" /\ r.toAcc # <<>>
        /\ sockets' = [sockets EXCEPT ![s] = [r EXCEPT !.toAcc = Tail(@)]]
        /\ IF "type" \in DOMAIN peerMsg /\ peerMsg.type = PeerInfo
           THEN LET address == JoinAddress(peerMsg.address, ToString(peerMsg.port))
                IN  /\ addressToSocket' = [addressToSocket EXCEPT ![m] = MapSet(@, address, InEnd(s))]
                    /\ socketToAddress' = [socketToAddress EXCEPT ![m] = MapSet(@, InEnd(s), address)]
                    /\ UNCHANGED <<calls, cbLog>>
           ELSE IF "type" \in DOMAIN peerMsg /\ peerMsg.type = PeerData
           THEN /\ OnPeerReceived(m, InEnd(s),
                                   IF "data" \in DOMAIN peerMsg THEN peerMsg.data
                                   ELSE UndefinedObject)
                /\ UNCHANGED <<addressToSocket, socketToAddress>>
           ELSE UNCHANGED <<addressToSocket, socketToAddress, calls, cbLog>>
        /\ UNCHANGED <<server, serverAddress, serverPort, listening, timer, lastTick,
                       db, store, lastFind>>

\* ============================================================ scenarios

\* an entry signed by the holder of `key`
SignedEntry(key, rest, title) ==
    [_id |-> KeyedId(key, rest), title |-> title,
     _signature |-> Sign(key, KeyedId(key, rest), title)]

\* the same entry with its title changed after signing
TamperedEntry(key, rest, title, newTitle) ==
    [SignedEntry(key, rest, title) EXCEPT !.title = newTitle]

\* --- two nodes that dial each other; A names itself by the loopback alias,
\* B by its configured address
NetNode == {"A", "B"}
NetPeers(n) ==
    IF n = "A" THEN <<"localhost:5001", "b:5001">> ELSE <<"a:5001", "b:5001">>

NetEntries == {SignedEntry("a1", "x", "t")}

Next ==
    \/ \E n \in NetNode : Connect(n, RealHost(n), NetPeers(n), 1, MaxSockets)
    \/ \E n \in NetNode : TimerTick(n, MaxSockets)
    \/ \E s \in DOMAIN sockets : ConnectCallback(s)
    \/ \E s \in DOMAIN sockets : OutboundClose(s)
    \/ \E s \in DOMAIN sockets : InboundEnd(s)
    \/ \E s \in DOMAIN sockets : ServerData(s)
    \/ \E s \in DOMAIN sockets : ClientData(s)
    \/ \E e \in NetEntries : InsertOne("A", "songs", "a1", e)
    \/ \E n \in NetNode : \E i \in DOMAIN calls[n] : InsertOneResume(n, i)

Spec == Init /\ [][Next]_vars

\* --- the same two nodes, connections only: dials, handshakes, closes
NextPair ==
    \/ \E n \in NetNode : Connect(n, RealHost(n), NetPeers(n), 1, PairSockets)
    \/ \E n \in NetNode : TimerTick(n, PairSockets)
    \/ \E s \in DOMAIN sockets : ConnectCallback(s)
    \/ \E s \in DOMAIN sockets : OutboundClose(s)
    \/ \E s \in DOMAIN sockets : InboundEnd(s)
    \/ \E s \in DOMAIN sockets : ServerData(s)

SpecPair == Init /\ [][NextPair]_vars

\* --- the same two nodes, started and stopped; the bind may fail
NextStop ==
    \/ \E n \in NetNode : Connect(n, RealHost(n), NetPeers(n), 1, MaxSockets)
    \/ \E n \in NetNode :
         ConnectListenError(n, RealHost(n), NetPeers(n), 1, MaxSockets)
    \/ \E n \in NetNode : Disconnect(n)
    \/ \E n \in NetNode : TimerTick(n, MaxSockets)
    \/ \E s \in DOMAIN sockets : ConnectCallback(s)
    \/ \E s \in DOMAIN sockets : OutboundClose(s)
    \/ \E s \in DOMAIN sockets : InboundEnd(s)
    \/ \E s \in DOMAIN sockets : ServerData(s)

SpecStop == Init /\ [][NextStop]_vars

\* --- the replication engine of node A, with one peer B that only listens
DbPeers(n) == IF n = "A" THEN <<"b:5001", "b:5001">> ELSE <<>>

DbNames == {"songs", "songs/a1"}
DbOwners == {Null, "a1"}
DbEntries == {SignedEntry("a1", "x", "t"), TamperedEntry("a1", "x", "t", "u")}

NextDb ==
    \/ \E n \in NetNode : Connect(n, RealHost(n), DbPeers(n), 1, MaxSockets)
    \/ \E s \in DOMAIN sockets : ConnectCallback(s)
    \/ \E s \in DOMAIN sockets : ServerData(s)
    \/ \E name \in DbNames, owner \in DbOwners, e \in DbEntries :
         InsertOne("A", name, owner, e)
    \/ \E i \in DOMAIN calls["A"] : InsertOneResume("A", i)
    \/ \E name \in DbNames, owner \in DbOwners : Find("A", name, owner)

SpecDb == Init /\ [][NextDb]_vars

\* --- announced addresses: the two nodes of NetNode, where B may be
\* configured with a selfAddress that is the host of another machine
ConfiguredSelf(n) == IF n = "B" THEN {RealHost("B"), RealHost("C")} ELSE {RealHost(n)}

AnnouncePeers(n) == IF n = "B" THEN <<"a:5001", "a:5001">> ELSE NetPeers(n)

NextAnnounce ==
    \/ \E n \in NetNode : \E selfAddress \in ConfiguredSelf(n) :
         Connect(n, selfAddress, AnnouncePeers(n), 1, MaxSockets)
    \/ \E n \in NetNode : TimerTick(n, MaxSockets)
    \/ \E s \in DOMAIN sockets : ConnectCallback(s)
    \/ \E s \in DOMAIN sockets : OutboundClose(s)
    \/ \E s \in DOMAIN sockets : InboundEnd(s)
    \/ \E s \in DOMAIN sockets : ServerData(s)

SpecAnnounce == Init /\ [][NextAnnounce]_vars

\* --- lost connections: the two nodes of NetNode, whose connections may
\* also be reset
NextReset ==
    \/ \E n \in NetNode : Connect(n, RealHost(n), NetPeers(n), 1, MaxSockets)
    \/ \E n \in NetNode : TimerTick(n, MaxSockets)
    \/ \E s \in DOMAIN sockets : ConnectCallback(s)
    \/ \E s \in DOMAIN sockets : OutboundClose(s)
    \/ \E s \in DOMAIN sockets : InboundEnd(s)
    \/ \E s \in DOMAIN sockets : InboundReset(s)
    \/ \E s \in DOMAIN sockets : ServerData(s)

SpecReset == Init /\ [][NextReset]_vars

\* --- collection names: node A is given the name of an owner-scoped
\* collection's address as the name of a public collection, and entries
\* signed by two keys
NsNames == {"songs", "songs/a1"}
NsOwners == {Null, "a1"}
NsEntries == {SignedEntry("a1", "x", "t"), SignedEntry("b2", "x", "t")}

NextNs ==
    \/ Connect("A", RealHost("A"), DbPeers("A"), 1, MaxSockets)
    \/ \E name \in NsNames, owner \in NsOwners, e \in NsEntries :
         InsertOne("A", name, owner, e)
    \/ \E i \in DOMAIN calls["A"] : InsertOneResume("A", i)

SpecNs == Init /\ [][NextNs]_vars

\* --- validation: node A is given entries without _id, with the empty _id,
\* without a key prefix, and changed after signing
SignedWithId(key, id, title) ==
    [_id |-> id, title |-> title, _signature |-> Sign(key, id, title)]

ValIds == {Undefined, Null, "", "x", KeyedId("a1", "x")}
ValEntries ==
    {SignedWithId("a1", id, "t") : id \in ValIds}
      \cup {TamperedEntry("a1", "x", "t", "u")}

NextVal ==
    \/ \E n \in NetNode : Connect(n, RealHost(n), DbPeers(n), 1, MaxSockets)
    \/ \E s \in DOMAIN sockets : ConnectCallback(s)
    \/ \E s \in DOMAIN sockets : ServerData(s)
    \/ \E owner \in DbOwners, e \in ValEntries : InsertOne("A", "songs", owner, e)
    \/ \E i \in DOMAIN calls["A"] : InsertOneResume("A", i)

SpecVal == Init /\ [][NextVal]_vars

\* --- three nodes that interconnect: A dials B, B dials C, C dials A; an
\* insert at A
MeshPeers(n) ==
    CASE n = "A" -> <<"b:5001", "b:5001">>
      [] n = "B" -> <<"c:5001", "c:5001">>
      [] n = "C" -> <<"a:5001", "a:5001">>

NextMesh ==
    \/ \E n \in Node : Connect(n, RealHost(n), MeshPeers(n), 1, MeshSockets)
    \/ \E n \in Node : TimerTick(n, MeshSockets)
    \/ \E s \in DOMAIN sockets : ConnectCallback(s)
    \/ \E s \in DOMAIN sockets : ServerData(s)
    \/ \E s \in DOMAIN sockets : ClientData(s)
    \/ \E e \in NetEntries : InsertOne("A", "songs", "a1", e)
    \/ \E i \in DOMAIN calls["A"] : InsertOneResume("A", i)

SpecMesh == Init /\ [][NextMesh]_vars

\* --- a chain A - B - C: B dials A, C dials B, A and C are not connected;
\* the application inserts at A once the chain is up
ChainPeers(n) ==
    CASE n = "A" -> <<>>
      [] n = "B" -> <<"a:5001", "a:5001">>
      [] n = "C" -> <<"b:5001", "b:5001">>

ChainUp ==
    /\ "b:5001" \in DOMAIN addressToSocket["A"]
    /\ "a:5001" \in DOMAIN addressToSocket["B"]
    /\ "c:5001" \in DOMAIN addressToSocket["B"]
    /\ "b:5001" \in DOMAIN addressToSocket["C"]

NextChain ==
    \/ \E n \in Node : Connect(n, RealHost(n), ChainPeers(n), 1, MeshSockets)
    \/ \E n \in Node : TimerTick(n, MeshSockets)
    \/ \E s \in DOMAIN sockets : ConnectCallback(s)
    \/ \E s \in DOMAIN sockets : ServerData(s)
    \/ \E s \in DOMAIN sockets : ClientData(s)
    \/ ChainUp /\ \E e \in NetEntries : InsertOne("A", "songs", "a1", e)
    \/ \E i \in DOMAIN calls["A"] : InsertOneResume("A", i)

SpecChain == Init /\ [][NextChain]_vars

\* the event loop of a node runs the handler of every chunk that has arrived,
\* and the storage answers every insert
SpecMeshLive ==
    /\ SpecMesh
    /\ WF_vars(\E s \in DOMAIN sockets : ServerData(s))
    /\ WF_vars(\E s \in DOMAIN sockets : ClientData(s))
    /\ WF_vars(\E i \in DOMAIN calls["A"] : InsertOneResume("A", i))

\* ============================================================ properties

\* the entry carries the signature of the holder of `key` over its content
WellSigned(entry, key) ==
    entry._signature = [by |-> key, over |-> <<entry._id, entry.title>>]

\* the content of the entry was changed after it was signed
Tampered(entry) == entry._signature.over # <<entry._id, entry.title>>

HasKeyPrefix(id) == \E k \in Keys, r \in IdRests : id = k \o "/" \o r
KeyPrefix(id) == CHOOSE k \in Keys : \E r \in IdRests : id = k \o "/" \o r

\* the key an insertOne call is to be verified against, "" when there is none
KeyOf(c) ==
    IF c.owner \in Keys THEN c.owner
    ELSE IF ~HasKeyPrefix(c.entry._id) THEN ""
    ELSE KeyPrefix(c.entry._id)

\* the collection address of a call: name/owner, or name for a public collection
AddressOf(c) == IF c.owner \in Keys THEN c.name \o "/" \o c.owner ELSE c.name

\* a call with a validly signed entry, made while the storage is connected
Genuine(c) == c.dbAtCall /\ KeyOf(c) # "" /\ WellSigned(c.entry, KeyOf(c))

CountOf(seq, x) == Cardinality({k \in DOMAIN seq : seq[k] = x})

\* the documents with the _id of call c in the collection of call c
Stored(n, c) == {d \in store[n] : d[1] = AddressOf(c) /\ d[2]._id = c.entry._id}

\* the replication message of call c
MessageOf(c) ==
    [action |-> "insertOne", name |-> c.name, publicKeyOwner |-> c.owner,
     entry |-> c.entry]

\* calls with the same name, owner and entryId
SameClass(c, d) ==
    c.name = d.name /\ c.owner = d.owner /\ c.entry._id = d.entry._id

\* --- C1
\* C1: of the insertOne calls of a node with owner k, the same name and the
\* same entryId, for an entry validly signed under k, made one after the other
\* with the storage connected and no other caller writing that entryId to the
\* collection: the first stores the entry and returns the storage result;
\* every later one returns null through the duplicate-key catch, leaves one
\* stored document and writes nothing to any peer (the message is on no
\* socket more than once).
C1_InsertOnce ==
    \A n \in Node : \A i \in DOMAIN calls[n] :
      LET c == calls[n][i]
          class == {j \in DOMAIN calls[n] :
                      /\ calls[n][j].owner \in Keys
                      /\ Genuine(calls[n][j])
                      /\ SameClass(calls[n][j], c)}
          foreign == {j \in DOMAIN calls[n] :
                      /\ Genuine(calls[n][j])
                      /\ AddressOf(calls[n][j]) = AddressOf(c)
                      /\ calls[n][j].entry._id = c.entry._id
                      /\ ~SameClass(calls[n][j], c)}
      IN  (i \in class /\ c.pc = "done") =>
            /\ ( /\ \A j \in class : j >= i
                 /\ foreign = {}
                 /\ \A j \in class : j > i => calls[n][j].alone )
               => ( /\ c.outcome = "Inserted"
                    /\ c.result = "InsertOneResult"
                    /\ <<AddressOf(c), c.entry>> \in store[n] )
            /\ ( (\E j \in class : j < i) /\ c.alone )
               => ( /\ c.outcome = "WriteError"
                    /\ c.result = Null
                    /\ Cardinality(Stored(n, c)) = 1
                    /\ \A s \in DOMAIN sockets :
                         /\ CountOf(sockets[s].dWrote, MessageOf(c)) <= 1
                         /\ CountOf(sockets[s].aWrote, MessageOf(c)) <= 1 )

\* a second call returned null after the first one stored the entry and wrote
\* it to a registered peer
C1_Witness ==
    \E n \in Node : \E i, j \in DOMAIN calls[n] :
      /\ i < j
      /\ calls[n][i].owner \in Keys /\ Genuine(calls[n][i])
      /\ Genuine(calls[n][j]) /\ SameClass(calls[n][i], calls[n][j])
      /\ calls[n][i].outcome = "Inserted" /\ calls[n][i].registered # {}
      /\ calls[n][j].alone /\ calls[n][j].outcome = "WriteError"

\* --- C2
\* C2: an insertOne call whose entry was changed after signing returns null
\* without any storage call (no collection opened, nothing inserted, the
\* entry in no collection); when the storage is connected and the entry has
\* an entryId and a resolvable key it is rejected by the signature check.
C2_TamperedRejected ==
    \A n \in Node : \A i \in DOMAIN calls[n] :
      LET c == calls[n][i]
      IN  Tampered(c.entry) =>
            /\ c.pc = "done"
            /\ c.result = Null
            /\ c.ops = <<>>
            /\ \A d \in store[n] : d[2] # c.entry
            /\ (c.dbAtCall /\ KeyOf(c) # "") => c.outcome = "SignatureInvalid"

C2_Witness ==
    \E n \in Node : \E i \in DOMAIN calls[n] :
      /\ Tampered(calls[n][i].entry)
      /\ calls[n][i].dbAtCall
      /\ calls[n][i].outcome = "SignatureInvalid"

\* --- C3
\* C3: of the insertOne calls of a node that carry one validly signed entryId
\* to one collection address, however they interleave at the storage await,
\* at most one document is ever stored, and once all of them have returned
\* exactly one is, by exactly one call; the others returned null.
C3_OneDocument ==
    \A n \in Node : \A i \in DOMAIN calls[n] :
      LET c == calls[n][i]
          racers == {j \in DOMAIN calls[n] :
                       /\ Genuine(calls[n][j])
                       /\ AddressOf(calls[n][j]) = AddressOf(c)
                       /\ calls[n][j].entry._id = c.entry._id}
      IN  Genuine(c) =>
            /\ Cardinality(Stored(n, c)) <= 1
            /\ (\A j \in racers : calls[n][j].pc = "done") =>
                 /\ Cardinality(Stored(n, c)) = 1
                 /\ Cardinality({j \in racers : calls[n][j].outcome = "Inserted"}) = 1
                 /\ \A j \in racers :
                      calls[n][j].outcome # "Inserted" =>
                        calls[n][j].outcome = "WriteError" /\ calls[n][j].result = Null

\* two calls raced: the second was made while the first waited for the storage
C3_Witness ==
    \E n \in Node : \E i, j \in DOMAIN calls[n] :
      /\ i < j
      /\ Genuine(calls[n][i]) /\ Genuine(calls[n][j])
      /\ AddressOf(calls[n][i]) = AddressOf(calls[n][j])
      /\ calls[n][i].entry._id = calls[n][j].entry._id
      /\ ~calls[n][j].alone
      /\ calls[n][i].pc = "done" /\ calls[n][j].pc = "done"
      /\ calls[n][j].outcome = "Inserted"

\* --- C7
\* C7 (as claimed): a find on a connected node returns exactly the entries
\* that insertOne calls with the same (name, owner) pair have stored.
C7_FindReturnsInserted ==
    \A n \in Node :
      (lastFind[n].name # "" /\ lastFind[n].connected) =>
        lastFind[n].result = lastFind[n].inserted

\* --- C5
\* the outbound connections of node n that are established
OpenOutbound(n) == {s \in SocketsOf(n) : sockets[s].dst = "open"}

\* C5 (as claimed): a node never has more than
\* min(maxConnections, |peerAddresses| / 2) outbound connections open at once
\* (both sides of the comparison doubled).
C5_OutboundBounded ==
    \A n \in Node :
      timer[n].armed =>
        2 * Cardinality(OpenOutbound(n))
          <= Min(2 * timer[n].maxConnections, Len(timer[n].addresses))

\* --- C6
\* the addresses that denote node n itself: a loopback name or the configured
\* self-address, with the port n listens on
SelfAddresses(n) ==
    {h \o ":" \o ToString(serverPort[n]) :
       h \in {"localhost", "127.0.0.1", serverAddress[n]}}

\* C6: no socket a node ever created by dialing, at the first tick or at any
\* later one, goes to a loopback name or to the node's configured self-address
\* at the node's own listening port, and no connection is established from a
\* node to itself.
C6_NeverDialsSelf ==
    \A s \in DOMAIN sockets :
      /\ sockets[s].address \notin SelfAddresses(sockets[s].dialer)
      /\ sockets[s].acceptor # sockets[s].dialer

\* a tick picked a candidate that denotes the node itself and skipped it,
\* while the node listens
C6_Witness ==
    /\ lastTick = "self"
    /\ \E n \in Node :
         /\ server[n] /\ timer[n].armed
         /\ \E k \in DOMAIN timer[n].addresses :
              timer[n].addresses[k] \in SelfAddresses(n)

\* --- C8
\* an InsertOne replication message with a validly signed entry
IsInsertOneMessage(obj) ==
    /\ "action" \in DOMAIN obj /\ obj.action = "insertOne"
    /\ "entry" \in DOMAIN obj /\ "publicKeyOwner" \in DOMAIN obj
    /\ WellSigned(obj.entry, obj.publicKeyOwner)

\* C8 (as claimed): whenever the receive callback of a node with connected
\* storage was given an InsertOne message with a validly signed entry, the
\* node has made an insertOne call for that entry with the name and the owner
\* key of the message.
C8_PeerInsertApplied ==
    \A n \in Node : \A k \in DOMAIN cbLog[n] :
      LET obj == cbLog[n][k].obj
      IN  (IsInsertOneMessage(obj) /\ db[n]) =>
            \E i \in DOMAIN calls[n] :
              /\ calls[n][i].entry = obj.entry
              /\ calls[n][i].name = obj.name
              /\ calls[n][i].owner = obj.publicKeyOwner
              /\ ~calls[n][i].notifyPeers

\* --- C9
\* the application messages among the chunks written on one end of a socket
AppMessages(wrote) ==
    LET IsApp(x) == "action" \in DOMAIN x
    IN  SelectSeq(wrote, IsApp)

\* what the receive callback of node n was given from the socket end `end`
Received(n, end) ==
    LET FromEnd(x) == x.socket = end
        log == SelectSeq(cbLog[n], FromEnd)
    IN  [k \in DOMAIN log |-> log[k].obj]

\* C9 (as claimed): once everything written on a connection has been read by
\* the open other end, the receive callback there has been invoked exactly
\* once for each application message written, with that message, whichever
\* side dialed the connection.
C9_OneCallbackPerMessage ==
    \A s \in DOMAIN sockets :
      /\ (sockets[s].ast = "open" /\ sockets[s].toAcc = <<>>) =>
            Received(sockets[s].acceptor, InEnd(s)) = AppMessages(sockets[s].dWrote)
      /\ (sockets[s].dst = "open" /\ sockets[s].toDial = <<>>) =>
            Received(sockets[s].dialer, OutEnd(s)) = AppMessages(sockets[s].aWrote)

PeerOf(end) ==
    IF end[2] = "out" THEN sockets[end[1]].acceptor ELSE sockets[end[1]].dialer

\* nothing is in flight and no insertOne call waits for the storage
Quiet ==
    /\ \A s \in DOMAIN sockets : sockets[s].toAcc = <<>> /\ sockets[s].toDial = <<>>
    /\ \A n \in Node : \A i \in DOMAIN calls[n] : calls[n][i].pc = "done"

\* C4 (as claimed): after a successful insertOne at A made while A had a
\* registered connection to B and to C, once nothing is in flight any more
\* (no later step can store anything), the entry is stored at B and at C.
C4_ReachesBothPeers ==
    \A i \in DOMAIN calls["A"] :
      LET c == calls["A"][i]
      IN  ( /\ c.outcome = "Inserted"
            /\ {PeerOf(e) : e \in c.registered} = {"B", "C"}
            /\ db["B"] /\ db["C"]
            /\ Quiet )
          => \A m \in {"B", "C"} : \E d \in store[m] : d[2] = c.entry

\* --- C11
\* the replication messages node n has written, on any of its socket ends
SentBy(n) ==
    UNION {{sockets[s].dWrote[k] : k \in {j \in DOMAIN sockets[s].dWrote :
                sockets[s].dialer = n /\ "action" \in DOMAIN sockets[s].dWrote[j]}}
             \cup
           {sockets[s].aWrote[k] : k \in {j \in DOMAIN sockets[s].aWrote :
                sockets[s].acceptor = n /\ "action" \in DOMAIN sockets[s].aWrote[j]}}
           : s \in DOMAIN sockets}

\* C11 (as claimed): every replication message a node sends after a
\* successful insert carries an excludeAddresses set that holds at least the
\* node's own address and the addresses of the peers registered at the node.
C11_CarriesExclusionSet ==
    \A n \in Node : \A msg \in SentBy(n) :
      /\ "excludeAddresses" \in DOMAIN msg
      /\ (serverAddress[n] \o ":" \o ToString(serverPort[n])) \in msg.excludeAddresses

\* --- C18
\* C18 (as claimed): at every node the address-to-connection map and the
\* connection-to-address map are inverses of each other.
C18_RegistryOneToOne ==
    \A n \in Node :
      LET a2s == addressToSocket[n]
          s2a == socketToAddress[n]
      IN  /\ \A a \in DOMAIN a2s : a2s[a] \in DOMAIN s2a /\ s2a[a2s[a]] = a
          /\ \A e \in DOMAIN s2a : s2a[e] \in DOMAIN a2s /\ a2s[s2a[e]] = e

\* --- C20
\* the outbound sockets of node n that are connecting or established
LiveOutbound(n) ==
    {s \in SocketsOf(n) : sockets[s].dst \in {"connecting", "open"}}

\* C20 (as claimed): no node has two outbound sockets, connecting or
\* established, to the same peer address at the same time.
C20_OneDialPerAddress ==
    \A n \in Node : \A s, t \in LiveOutbound(n) :
      s # t => sockets[s].address # sockets[t].address

\* --- C12
\* node n has been disconnected
Stopped(n) == listening[n] = "closed"

\* the ends of connections that node n still holds open or is opening
HeldBy(n) ==
    {OutEnd(s) : s \in {t \in DOMAIN sockets :
        sockets[t].dialer = n /\ sockets[t].dst \in {"connecting", "open"}}}
      \cup
    {InEnd(s) : s \in {t \in DOMAIN sockets :
        sockets[t].acceptor = n /\ sockets[t].ast = "open"}}

\* C12 (as claimed): once a node has been disconnected its registry is empty,
\* its listening socket is closed, and it holds no connection that is open or
\* being opened: every socket it accepted or dialed has been ended.
C12_StopClosesEverything ==
    \A n \in Node :
      Stopped(n) =>
        /\ ~server[n]
        /\ addressToSocket[n] = EmptyMap /\ socketToAddress[n] = EmptyMap
        /\ HeldBy(n) = {}

\* --- C13
\* C13 (as claimed): once a node has been disconnected, no socket of the
\* node was dialed after the disconnect and its registry is empty.
C13_NoReconnectAfterStop ==
    \A n \in Node :
      Stopped(n) =>
        /\ \A s \in SocketsOf(n) : ~sockets[s].afterStop
        /\ addressToSocket[n] = EmptyMap /\ socketToAddress[n] = EmptyMap

\* --- C16
\* C16 (as claimed): when the bind of the listening socket failed, the start
\* did not go on: the reconnection timer is not armed and nothing was dialed.
C16_BindFailureStopsStart ==
    \A n \in Node :
      listening[n] = "error" => ~timer[n].armed /\ SocketsOf(n) = {}

\* --- C14
\* a call that must fail: the storage is not connected, the entry has no _id,
\* no key can be resolved, or the signature does not verify under the key
Invalid(c) ==
    \/ ~c.dbAtCall
    \/ c.entry._id \in {Undefined, Null}
    \/ KeyOf(c) = ""
    \/ ~WellSigned(c.entry, KeyOf(c))

Failed(c) ==
    c.outcome \in {"NotConnected", "MalformedEntry", "MissingOwner", "SignatureInvalid"}

\* C14: every call that must fail does fail, and a failed call has returned
\* null with no storage call and nothing sent; every stored document and
\* every message sent to a peer comes from a call that did not fail.
C14_FailedCallsChangeNothing ==
    \A n \in Node :
      /\ \A i \in DOMAIN calls[n] :
           LET c == calls[n][i]
           IN  /\ Invalid(c) => Failed(c)
               /\ Failed(c) =>
                    /\ c.pc = "done" /\ c.result = Null
                    /\ c.ops = <<>> /\ c.registered = {}
      /\ \A d \in store[n] : \E i \in DOMAIN calls[n] :
           /\ ~Failed(calls[n][i]) /\ ~Invalid(calls[n][i])
           /\ calls[n][i].outcome = "Inserted"
           /\ AddressOf(calls[n][i]) = d[1] /\ calls[n][i].entry = d[2]
      /\ \A msg \in SentBy(n) : \E i \in DOMAIN calls[n] :
           /\ ~Failed(calls[n][i]) /\ ~Invalid(calls[n][i])
           /\ calls[n][i].outcome = "Inserted"
           /\ MessageOf(calls[n][i]) = msg

\* after an insert that was stored and sent to a peer, a call with a
\* connected storage failed, and the store holds the one document
C14_Witness ==
    \E n \in Node : \E i, j \in DOMAIN calls[n] :
      /\ i < j
      /\ calls[n][i].outcome = "Inserted" /\ calls[n][i].registered # {}
      /\ calls[n][j].dbAtCall /\ Failed(calls[n][j])
      /\ Cardinality(store[n]) = 1

\* --- C15
\* C15 (as claimed): a call whose entry has no _id, or the empty string as
\* _id, made with the storage connected, is rejected as MalformedEntry
\* without a storage call.
C15_EmptyIdRejected ==
    \A n \in Node : \A i \in DOMAIN calls[n] :
      LET c == calls[n][i]
      IN  (c.dbAtCall /\ c.entry._id \in {Undefined, Null, ""}) =>
            c.outcome = "MalformedEntry" /\ c.ops = <<>>

\* --- C17
\* how many times node n has written msg on its connections with node m
TimesSent(n, m, msg) ==
    Cardinality({sk \in UNION {{<<s, k>> : k \in DOMAIN sockets[s].dWrote} :
                                 s \in DOMAIN sockets} :
                   /\ sockets[sk[1]].dialer = n /\ sockets[sk[1]].acceptor = m
                   /\ sockets[sk[1]].dWrote[sk[2]] = msg})
    + Cardinality({sk \in UNION {{<<s, k>> : k \in DOMAIN sockets[s].aWrote} :
                                 s \in DOMAIN sockets} :
                   /\ sockets[sk[1]].acceptor = n /\ sockets[sk[1]].dialer = m
                   /\ sockets[sk[1]].aWrote[sk[2]] = msg})

SendsAtMostOnce ==
    \A n \in Node : \A msg \in SentBy(n) : \A m \in Node : TimesSent(n, m, msg) <= 1

\* no replication message is on its way on any connection
NothingInFlight ==
    \A s \in DOMAIN sockets :
      /\ \A k \in DOMAIN sockets[s].toAcc : "action" \notin DOMAIN sockets[s].toAcc[k]
      /\ \A k \in DOMAIN sockets[s].toDial : "action" \notin DOMAIN sockets[s].toDial[k]

\* C17: in the three-node topology, after the insert at A, no node ever
\* writes the replication message more than once to one peer, and from some
\* point on no replication message is in flight.
C17_PropagationTerminates ==
    /\ []SendsAtMostOnce
    /\ <>[]NothingInFlight

\* the message went to both peers of A, once each, and has been read by both
C17_Witness ==
    \E i \in DOMAIN calls["A"] :
      /\ calls["A"][i].outcome = "Inserted"
      /\ {PeerOf(e) : e \in calls["A"][i].registered} = {"B", "C"}
      /\ TimesSent("A", "B", MessageOf(calls["A"][i])) = 1
      /\ TimesSent("A", "C", MessageOf(calls["A"][i])) = 1
      /\ NothingInFlight

\* --- C19
\* a connection dialed by n and accepted by m is established, and its
\* handshake frame has been read
Handshaken(n, m) ==
    \E s \in SocketsOf(n) :
      /\ sockets[s].acceptor = m
      /\ sockets[s].dst = "open" /\ sockets[s].ast = "open"
      /\ sockets[s].toAcc = <<>>

\* the addresses under which node n has a connection with node m registered
RegisteredAs(n, m) ==
    {a \in DOMAIN addressToSocket[n] : PeerOf(addressToSocket[n][a]) = m}

\* C19 (as claimed): when two nodes have dialed each other and both
\* connections are established and handshaken, the address-to-connection
\* map of each holds the other under exactly one address.
C19_PeerRepresentedOnce ==
    \A n, m \in Node :
      (n # m /\ Handshaken(n, m) /\ Handshaken(m, n)) =>
        Cardinality(RegisteredAs(n, m)) = 1

\* --- C21
\* C21 (as claimed): in the chain A - B - C, after a successful insertOne at
\* A that was sent to B while B and C were connected, once nothing is in
\* flight any more the entry is stored at C.
C21_ChainReachesEnd ==
    \A i \in DOMAIN calls["A"] :
      LET c == calls["A"][i]
      IN  ( /\ c.outcome = "Inserted"
            /\ {PeerOf(e) : e \in c.registered} = {"B"}
            /\ RegisteredAs("B", "C") # {} /\ RegisteredAs("C", "B") # {}
            /\ db["B"] /\ db["C"]
            /\ Quiet )
          => \E d \in store["C"] : d[2] = c.entry

\* --- C22
IsHandshake(x) == "type" \in DOMAIN x /\ x.type = PeerInfo

\* C22: nothing is written on a socket that is still connecting; on a socket
\* that has connected the dialing side has written exactly one handshake
\* frame, as its first frame, and it was written by the time the socket is
\* registered; the accepting side never writes a handshake frame.
C22_HandshakeOnceFirst ==
    \A s \in DOMAIN sockets :
      LET r == sockets[s]
      IN  /\ r.dst = "connecting" => (r.dWrote = <<>> /\ r.aWrote = <<>>)
          /\ r.acceptor # "" =>
               /\ r.dWrote # <<>>
               /\ r.dWrote[1] = [type |-> PeerInfo, address |-> r.dWrote[1].address,
                                 port |-> r.dWrote[1].port]
               /\ Len(SelectSeq(r.dWrote, IsHandshake)) = 1
          /\ OutEnd(s) \in MapValues(addressToSocket[r.dialer]) => r.dWrote # <<>>
          /\ SelectSeq(r.aWrote, IsHandshake) = <<>>

\* a dialed connection on which a broadcast has been written after the
\* handshake, and the accepting side has read both
C22_Witness ==
    \E s \in DOMAIN sockets :
      /\ Len(sockets[s].dWrote) >= 2
      /\ IsHandshake(sockets[s].dWrote[1])
      /\ IsInsertOneMessage(sockets[s].dWrote[2])
      /\ sockets[s].toAcc = <<>>

\* --- C24
\* a chunk that carries one of the two frame kinds
HasFrameKind(x) == "type" \in DOMAIN x /\ x.type \in {PeerInfo, PeerData}

\* C24 (as claimed): the receive callback is never invoked for a chunk that
\* carries no known frame kind, on an accepted and on a dialed connection
\* alike: every invocation made for a chunk read from the dialed end of a
\* connection was made for a chunk with a frame kind.
C24_UnframedChunkDropped ==
    \A n \in Node : \A k \in DOMAIN cbLog[n] :
      cbLog[n][k].socket[2] = "out" => HasFrameKind(cbLog[n][k].obj)

\* --- C26
\* the end `e` of a connection is closed in the state reached by the step
ClosedAfter(e) ==
    IF e[2] = "out" THEN sockets'[e[1]].dst = "closed"
    ELSE sockets'[e[1]].ast = "closed"

\* C26 (as claimed): a step removes the entry of an address from the
\* address-to-connection map of a node only when the connection the entry
\* refers to is the one that closed or ended in that step.
C26_CloseRemovesOwnEntryOnly ==
    [][\A n \in Node : \A a \in DOMAIN addressToSocket[n] :
         a \notin DOMAIN addressToSocket'[n] => ClosedAfter(addressToSocket[n][a])]_vars

\* --- C27
\* the names of the owner-scoped collections
ScopedNames == {"songs"}

\* C27 (as claimed): every document stored under the address name/k of an
\* owner-scoped collection was inserted by a successful call to that address
\* whose signature was verified against the key k.
C27_OwnerNamespaceVerified ==
    \A n \in Node : \A d \in store[n] :
      \A name \in ScopedNames, k \in Keys :
        d[1] = name \o "/" \o k =>
          \E i \in DOMAIN calls[n] :
            /\ calls[n][i].entry = d[2]
            /\ calls[n][i].outcome = "Inserted"
            /\ AddressOf(calls[n][i]) = d[1]
            /\ KeyOf(calls[n][i]) = k

\* --- C23
\* C23 (as claimed): an accepted connection is registered only after its
\* handshake has been read, and the host of the address it is registered
\* under is the host the connection really comes from, with the announced
\* port.
C23_RegisteredUnderRemoteHost ==
    \A n \in Node : \A e \in DOMAIN socketToAddress[n] :
      e[2] = "in" =>
        LET r == sockets[e[1]]
            hp == SplitAddress(socketToAddress[n][e])
        IN  /\ Len(r.toAcc) < Len(r.dWrote)
            /\ hp[1] = RealHost(r.dialer)
            /\ hp[2] = ToString(r.dWrote[1].port)

\* --- C25
\* the other nodes that listen at a configured peer address of node n
ReachablePeers(n, address) == Listener(n, address) \ {n}

\* C25 (as claimed): a node whose reconnection loop runs, that holds no
\* connection, open or being opened, while its limit allows one, and that has
\* a configured peer another node listens at, can dial such a peer at its
\* next timer tick (for some choice of the candidate).
C25_LoopKeepsDialing ==
    \A n \in Node :
      LET addresses == timer[n].addresses
      IN  ( /\ timer[n].armed /\ listening[n] = "listening"
            /\ HeldBy(n) = {}
            /\ BelowMaxCxns(0, addresses, timer[n].maxConnections)
            /\ \E k \in DOMAIN addresses : ReachablePeers(n, addresses[k]) # {} )
          => \E idx \in RandomCxnIdx(addresses) :
               LET t == StartConnectingToPeers(n, addresses, timer[n].maxConnections,
                                               idx, serverAddress[n], serverPort[n])
               IN  t.result = "dial" /\ ReachablePeers(n, t.address) # {}

=============================================================================
